---- MODULE Spec2Model ----
(***************************************************************************)
(* ZayDroids: the per-frame simulation of src/main.cpp (desktop build) and *)
(* of src/unnamed/part_000 (web/desktop build), as one state machine.      *)
(*                                                                         *)
(* Units.  The sources compute in float; the model computes in integers:   *)
(*   positions in pixels, velocities in pixels per second, times in        *)
(*   milliseconds, angles in milliradians, unit vectors scaled by UNIT.    *)
(* A float product v * s is the integer quotient (v * num) / den, rounded  *)
(* toward zero.  Names are those of the sources; where a name is used for  *)
(* several methods it is prefixed by its class (Player_update).            *)
(* Definitions in snake_case model src/main.cpp, definitions in CamelCase  *)
(* model src/unnamed/part_000.                                             *)
(***************************************************************************)
EXTENDS Integers, Sequences, FiniteSets, TLC

VARIABLES
    impl,       \* which of the two programs runs: "main" or "part"
    player,     \* Game::player
    bullets,    \* Game::bullets, in vector order
    asteroids,  \* Game::asteroids, in vector order
    score,      \* Game::score
    lives,      \* Game::lives
    wave,       \* Game::wave
    game_over,  \* Game::game_over / Game::gameOver
    frames,     \* number of frames run so far (bounded by MaxFrames)
    input,      \* the input snapshot and dt of the last frame
    mid         \* what the last frame saw between its steps

vars == <<impl, player, bullets, asteroids, score, lives, wave, game_over,
          frames, input, mid>>

----------------------------------------------------------------------------
(* Bounds of the model *)

MaxFrames == 5

(* Scales of the integer arithmetic *)
MS == 10 ^ 3        \* milliseconds per second
UNIT == 10 ^ 3      \* a unit vector has length UNIT
FIX == 10 ^ 4       \* fixed point of the friction factor

----------------------------------------------------------------------------
(* Constants, src/main.cpp 50-68 and src/unnamed/part_000 21-36 *)

SCREEN_WIDTH == 900
SCREEN_HEIGHT == 650
SHIP_RADIUS == 12
SHIP_TURN_SPEED == 3500
SHIP_ACCEL == 260
SHIP_FRICTION == 980
SHIP_MAX_SPEED == 360
BULLET_SPEED == 520
BULLET_LIFETIME == 1200
BULLET_COOLDOWN == 180
ASTEROID_BASE_SPEED == 40
LIVES_START == 3
INVULN_TIME == 2000
BULLET_RADIUS == 2
NOSE_OFFSET == 6
SPAWN_RADIUS == 80
PLAYER_CLEARANCE == 120
PI == 3142

ASTEROID_RADII(size) ==
    CASE size = 3 -> 42
      [] size = 2 -> 26
      [] size = 1 -> 14

----------------------------------------------------------------------------
(* Integer arithmetic standing for the float arithmetic *)

Quot(a, b) == IF a >= 0 THEN a \div b ELSE -((-a) \div b)

(* The integer square root of n, sought by bisection in lo .. hi. *)
RECURSIVE ISqrtIn(_, _, _)
ISqrtIn(n, lo, hi) ==
    IF lo >= hi THEN lo
    ELSE LET m == (lo + hi + 1) \div 2
         IN  IF m * m <= n THEN ISqrtIn(n, m, hi) ELSE ISqrtIn(n, lo, m - 1)

ISqrt(n) == ISqrtIn(n, 0, 4096)

(* sin of an angle in [0, PI] milliradians, scaled by UNIT (Bhaskara's      *)
(* rational approximation, exact at 0, PI/2 and PI).                        *)
SinHalf(x) ==
    LET q == x * (PI - x)
    IN  (16 * q) \div ((5 * PI * PI - 4 * q) \div UNIT)

Sin(angle) ==
    LET a == angle % (2 * PI)
    IN  IF a <= PI THEN SinHalf(a) ELSE -SinHalf(a - PI)

Cos(angle) == Sin(angle + PI \div 2)

(* (base / UNIT) ^ n scaled by FIX, by repeated squaring. *)
RECURSIVE PowFix(_, _)
PowFix(base, n) ==
    IF n = 0 THEN FIX
    ELSE IF n % 2 = 1 THEN (PowFix(base, n - 1) * base) \div UNIT
    ELSE LET h == PowFix(base, n \div 2) IN (h * h) \div FIX

----------------------------------------------------------------------------
(* Utility functions of src/main.cpp *)

Vector2(x, y) == [x |-> x, y |-> y]

wrap_position(pos) ==
    LET x == IF pos.x < 0 THEN pos.x + SCREEN_WIDTH
             ELSE IF pos.x > SCREEN_WIDTH THEN pos.x - SCREEN_WIDTH
             ELSE pos.x
        y == IF pos.y < 0 THEN pos.y + SCREEN_HEIGHT
             ELSE IF pos.y > SCREEN_HEIGHT THEN pos.y - SCREEN_HEIGHT
             ELSE pos.y
    IN  Vector2(x, y)

vec_from_angle(angle) == Vector2(Cos(angle), Sin(angle))

vec_len(v) == ISqrt(v.x * v.x + v.y * v.y)

vec_scale(v, num, den) == Vector2(Quot(v.x * num, den), Quot(v.y * num, den))

vec_add(a, b) == Vector2(a.x + b.x, a.y + b.y)

vec_clamp_length(v, max_len) ==
    IF v.x * v.x + v.y * v.y > max_len * max_len
    THEN vec_scale(v, max_len, vec_len(v))
    ELSE v

circle_collision(p1, r1, p2, r2) ==
    LET dx == p1.x - p2.x
        dy == p1.y - p2.y
    IN  (dx * dx + dy * dy) <= (r1 + r2) * (r1 + r2)

(* A draw d = [angle, speed] stands for the two values taken from the       *)
(* generator: the angle in [0, 2 PI) and the extra speed in [0, 40].        *)
random_asteroid_velocity(size, d) ==
    vec_scale(vec_from_angle(d.angle),
              ASTEROID_BASE_SPEED + d.speed + (3 - size) * 20, UNIT)

----------------------------------------------------------------------------
(* Inputs of a frame and draws of the random generator *)

(* The input snapshots of a frame: the frame time dt and the keys held (the *)
(* union of the physical bindings).  A long frame with both turn keys held  *)
(* (the two turns cancel), a firing frame, a short frame with fire and      *)
(* restart held, a thrusting left turn.                                     *)
Inputs ==
    { [dt |-> 2000, left |-> TRUE,  right |-> TRUE,  up |-> FALSE, fire |-> FALSE, restart |-> FALSE],
      [dt |-> 400,  left |-> FALSE, right |-> FALSE, up |-> FALSE, fire |-> TRUE,  restart |-> FALSE],
      [dt |-> 100,  left |-> FALSE, right |-> FALSE, up |-> FALSE, fire |-> TRUE,  restart |-> TRUE],
      [dt |-> 400,  left |-> TRUE,  right |-> FALSE, up |-> TRUE,  fire |-> FALSE, restart |-> FALSE] }

(* Draws of random_asteroid_velocity: directions and extra speeds. *)
AngleDraws == {PI \div 2}
SpeedDraws == {0}
VelDraws == [angle : AngleDraws, speed : SpeedDraws]

(* Candidate positions drawn by the rejection sampling of the wave spawn:   *)
(* the screen centre, a point at distance exactly 200 from it, and points   *)
(* farther away.                                                            *)
PosDraws ==
    { Vector2(450, 325), Vector2(450, 125), Vector2(450, 124), Vector2(450, 43) }

----------------------------------------------------------------------------
(* class Player, src/main.cpp 154-280 *)

Player_Player ==
    [pos |-> Vector2(SCREEN_WIDTH \div 2, SCREEN_HEIGHT \div 2),
     vel |-> Vector2(0, 0),
     angle |-> -(PI \div 2),
     cooldown |-> 0,
     invuln |-> 0,
     alive |-> TRUE]

Player_reset(p) ==
    [pos |-> Vector2(SCREEN_WIDTH \div 2, SCREEN_HEIGHT \div 2),
     vel |-> Vector2(0, 0),
     angle |-> -(PI \div 2),
     cooldown |-> 0,
     invuln |-> INVULN_TIME,
     alive |-> TRUE]

Player_update(p, inp) ==
    LET dt == inp.dt
        turn == Quot(SHIP_TURN_SPEED * dt, MS)
        a1 == IF inp.left THEN p.angle - turn ELSE p.angle
        a2 == IF inp.right THEN a1 + turn ELSE a1
        v1 == IF inp.up
              THEN vec_add(p.vel, vec_scale(vec_from_angle(a2), SHIP_ACCEL * dt, UNIT * MS))
              ELSE p.vel
        v2 == vec_scale(v1, PowFix(SHIP_FRICTION, Quot(dt * 60, MS)), FIX)
        v3 == vec_clamp_length(v2, SHIP_MAX_SPEED)
        p1 == wrap_position(vec_add(p.pos, vec_scale(v3, dt, MS)))
    IN  [pos |-> p1,
         vel |-> v3,
         angle |-> a2,
         cooldown |-> IF p.cooldown > 0 THEN p.cooldown - dt ELSE p.cooldown,
         invuln |-> IF p.invuln > 0 THEN p.invuln - dt ELSE p.invuln,
         alive |-> p.alive]

(* class Bullet, src/main.cpp 241-266 *)

Bullet_Bullet(pos_, vel_) == [pos |-> pos_, vel |-> vel_, life |-> BULLET_LIFETIME]

Bullet_update(b, dt) ==
    [pos |-> wrap_position(vec_add(b.pos, vec_scale(b.vel, dt, MS))),
     vel |-> b.vel,
     life |-> b.life - dt]

(* Mutant: the cooldown is not consulted. *)
Player_shoot_always(p) ==
    LET dir_vec == vec_from_angle(p.angle)
        bullet_pos == vec_add(p.pos, vec_scale(dir_vec, SHIP_RADIUS + NOSE_OFFSET, UNIT))
        bullet_vel == vec_add(p.vel, vec_scale(dir_vec, BULLET_SPEED, UNIT))
    IN  [p |-> [p EXCEPT !.cooldown = BULLET_COOLDOWN],
         b |-> <<Bullet_Bullet(bullet_pos, bullet_vel)>>]

(* Player::shoot: the player after the call and the bullets it returned     *)
(* (none for nullptr).                                                      *)
Player_shoot(p) ==
    IF p.cooldown <= 0
    THEN LET dir_vec == vec_from_angle(p.angle)
             bullet_pos == vec_add(p.pos, vec_scale(dir_vec, SHIP_RADIUS + NOSE_OFFSET, UNIT))
             bullet_vel == vec_add(p.vel, vec_scale(dir_vec, BULLET_SPEED, UNIT))
         IN  [p |-> [p EXCEPT !.cooldown = BULLET_COOLDOWN],
              b |-> <<Bullet_Bullet(bullet_pos, bullet_vel)>>]
    ELSE [p |-> p, b |-> <<>>]

(* class Asteroid, src/main.cpp 283-335.  The outline polygon is drawing    *)
(* data only and is left out.                                               *)

Asteroid_Asteroid(pos_, size_, d) ==
    [pos |-> pos_,
     size |-> size_,
     radius |-> ASTEROID_RADII(size_),
     vel |-> random_asteroid_velocity(size_, d)]

Asteroid_update(a, dt) ==
    [a EXCEPT !.pos = wrap_position(vec_add(a.pos, vec_scale(a.vel, dt, MS)))]

----------------------------------------------------------------------------
(* class Game, src/main.cpp 338-576.  A game g is the record of its fields. *)

TheGame ==
    [player |-> player, bullets |-> bullets, asteroids |-> asteroids,
     score |-> score, lives |-> lives, wave |-> wave, game_over |-> game_over]

(* Mutant: the exclusion circle is open (a candidate on it is accepted). *)
spawn_accepts_on_circle(pos, p) ==
    LET dx == pos.x - p.pos.x
        dy == pos.y - p.pos.y
        r == SPAWN_RADIUS + PLAYER_CLEARANCE
    IN  ~((dx * dx + dy * dy) < r * r)

(* The candidate the rejection loop of spawn_wave leaves with: one that     *)
(* does not collide with the exclusion circle around the player.            *)
spawn_accepts(pos, p) ==
    ~circle_collision(pos, SPAWN_RADIUS, p.pos, PLAYER_CLEARANCE)

(* The draws spawn_wave can end with: per asteroid an accepted position and *)
(* a velocity draw.                                                         *)
spawn_draws(p, count) ==
    [1 .. count -> [pos : {c \in PosDraws : spawn_accepts(c, p)}, vel : VelDraws]]

(* Mutant: the asteroids of the game before are not cleared. *)
spawn_wave_keeps_old(g, wave_num, sp) ==
    [g EXCEPT !.asteroids =
        @ \o [i \in 1 .. (3 + wave_num) |-> Asteroid_Asteroid(sp[i].pos, 3, sp[i].vel)]]

spawn_wave(g, wave_num, sp) ==
    [g EXCEPT !.asteroids =
        [i \in 1 .. (3 + wave_num) |-> Asteroid_Asteroid(sp[i].pos, 3, sp[i].vel)]]

Game_reset(g, sp) ==
    LET g1 == [g EXCEPT !.score = 0, !.lives = LIVES_START, !.wave = 1,
                        !.game_over = FALSE,
                        !.player = Player_reset(g.player),
                        !.bullets = <<>>]
    IN  spawn_wave(g1, g1.wave, sp)

(* Index of the first bullet of bs that overlaps asteroid a, 0 if none. *)
RECURSIVE first_hit(_, _, _)
first_hit(bs, a, j) ==
    IF j > Len(bs) THEN 0
    ELSE IF circle_collision(bs[j].pos, BULLET_RADIUS, a.pos, a.radius) THEN j
    ELSE first_hit(bs, a, j + 1)

(* Mutant: a hit asteroid is split but stays in the set. *)
RECURSIVE bullets_vs_asteroids_keeps_parent(_, _, _, _)
bullets_vs_asteroids_keeps_parent(as, rnd, i, st) ==
    IF i > Len(as) THEN st
    ELSE LET a == as[i]
             j == first_hit(st.bullets, a, 1)
             child(k) == [Asteroid_Asteroid(a.pos, a.size - 1, rnd[i][2 * k - 1])
                            EXCEPT !.vel = random_asteroid_velocity(a.size - 1, rnd[i][2 * k])]
         IN  IF j = 0
             THEN bullets_vs_asteroids_keeps_parent(as, rnd, i + 1,
                      [st EXCEPT !.remaining = Append(@, a)])
             ELSE bullets_vs_asteroids_keeps_parent(as, rnd, i + 1,
                      [st EXCEPT !.bullets[j].life = 0,
                                 !.score = @ + 10 * a.size,
                                 !.remaining = Append(@, a),
                                 !.new = IF a.size > 1
                                         THEN @ \o <<child(1), child(2)>>
                                         ELSE @])

(* Mutant: every overlapping bullet scores (no break in the bullet loop). *)
RECURSIVE bullets_vs_asteroids_all_score(_, _, _, _)
bullets_vs_asteroids_all_score(as, rnd, i, st) ==
    IF i > Len(as) THEN st
    ELSE LET a == as[i]
             j == first_hit(st.bullets, a, 1)
             n == Cardinality({k \in 1 .. Len(st.bullets) :
                      circle_collision(st.bullets[k].pos, BULLET_RADIUS, a.pos, a.radius)})
             child(k) == [Asteroid_Asteroid(a.pos, a.size - 1, rnd[i][2 * k - 1])
                            EXCEPT !.vel = random_asteroid_velocity(a.size - 1, rnd[i][2 * k])]
         IN  IF j = 0
             THEN bullets_vs_asteroids_all_score(as, rnd, i + 1,
                      [st EXCEPT !.remaining = Append(@, a)])
             ELSE bullets_vs_asteroids_all_score(as, rnd, i + 1,
                      [st EXCEPT !.bullets[j].life = 0,
                                 !.score = @ + n * 10 * a.size,
                                 !.new = IF a.size > 1
                                         THEN @ \o <<child(1), child(2)>>
                                         ELSE @])

(* Mutant: the score is assigned, not added to. *)
RECURSIVE bullets_vs_asteroids_sets_score(_, _, _, _)
bullets_vs_asteroids_sets_score(as, rnd, i, st) ==
    IF i > Len(as) THEN st
    ELSE LET a == as[i]
             j == first_hit(st.bullets, a, 1)
             child(k) == [Asteroid_Asteroid(a.pos, a.size - 1, rnd[i][2 * k - 1])
                            EXCEPT !.vel = random_asteroid_velocity(a.size - 1, rnd[i][2 * k])]
         IN  IF j = 0
             THEN bullets_vs_asteroids_sets_score(as, rnd, i + 1,
                      [st EXCEPT !.remaining = Append(@, a)])
             ELSE bullets_vs_asteroids_sets_score(as, rnd, i + 1,
                      [st EXCEPT !.bullets[j].life = 0,
                                 !.score = 10 * a.size,
                                 !.new = IF a.size > 1
                                         THEN @ \o <<child(1), child(2)>>
                                         ELSE @])

(* The bullets-vs-asteroids loop from asteroid i on.  st carries bullets,   *)
(* score, remaining_asteroids and new_asteroids; rnd[i] holds the velocity  *)
(* draws of the children of asteroid i (the constructor's draw, then the    *)
(* draw that overwrites it).                                                *)
RECURSIVE bullets_vs_asteroids(_, _, _, _)
bullets_vs_asteroids(as, rnd, i, st) ==
    IF i > Len(as) THEN st
    ELSE LET a == as[i]
             j == first_hit(st.bullets, a, 1)
             child(k) == [Asteroid_Asteroid(a.pos, a.size - 1, rnd[i][2 * k - 1])
                            EXCEPT !.vel = random_asteroid_velocity(a.size - 1, rnd[i][2 * k])]
         IN  IF j = 0
             THEN bullets_vs_asteroids(as, rnd, i + 1,
                      [st EXCEPT !.remaining = Append(@, a)])
             ELSE bullets_vs_asteroids(as, rnd, i + 1,
                      [st EXCEPT !.bullets[j].life = 0,
                                 !.score = @ + 10 * a.size,
                                 !.new = IF a.size > 1
                                         THEN @ \o <<child(1), child(2)>>
                                         ELSE @])

remove_dead(bs) == SelectSeq(bs, LAMBDA b : b.life > 0)

(* Mutant: the children are tested against the bullets in the pass that     *)
(* spawned them.                                                            *)
collide_bullets_tests_children(g, rnd) ==
    LET st == bullets_vs_asteroids(g.asteroids, rnd, 1,
                  [bullets |-> g.bullets, score |-> g.score,
                   remaining |-> <<>>, new |-> <<>>])
        st2 == bullets_vs_asteroids(st.new, [k \in 1 .. Len(st.new) |-> rnd[1]], 1,
                  [bullets |-> st.bullets, score |-> st.score,
                   remaining |-> st.remaining, new |-> <<>>])
    IN  [g EXCEPT !.asteroids = st2.remaining \o st2.new,
                  !.score = st2.score,
                  !.bullets = remove_dead(st2.bullets)]

(* Mutant: the last child spawned in the frame is lost. *)
collide_bullets_drops_child(g, rnd) ==
    LET st == bullets_vs_asteroids(g.asteroids, rnd, 1,
                  [bullets |-> g.bullets, score |-> g.score,
                   remaining |-> <<>>, new |-> <<>>])
    IN  [g EXCEPT !.asteroids = st.remaining \o SubSeq(st.new, 1, Len(st.new) - 1),
                  !.score = st.score,
                  !.bullets = remove_dead(st.bullets)]

(* First part of handle_collisions, lines 475-526. *)
collide_bullets(g, rnd) ==
    LET st == bullets_vs_asteroids(g.asteroids, rnd, 1,
                  [bullets |-> g.bullets, score |-> g.score,
                   remaining |-> <<>>, new |-> <<>>])
    IN  [g EXCEPT !.asteroids = st.remaining \o st.new,
                  !.score = st.score,
                  !.bullets = remove_dead(st.bullets)]

(* Second part of handle_collisions, lines 528-544: the loop over the      *)
(* asteroids from index i on, left at the first overlap.                    *)
(* Mutant: the loop goes on after an overlap (no break). *)
RECURSIVE player_vs_asteroids_no_break(_, _)
player_vs_asteroids_no_break(g, i) ==
    IF i > Len(g.asteroids) THEN g
    ELSE IF circle_collision(g.player.pos, SHIP_RADIUS,
                             g.asteroids[i].pos, g.asteroids[i].radius)
         THEN player_vs_asteroids_no_break(
                  [g EXCEPT !.lives = @ - 1,
                            !.player = Player_reset(@),
                            !.game_over = IF g.lives - 1 <= 0 THEN TRUE ELSE @], i + 1)
         ELSE player_vs_asteroids_no_break(g, i + 1)

(* Mutant: the game is over only once lives is below 0. *)
RECURSIVE player_vs_asteroids_late_over(_, _)
player_vs_asteroids_late_over(g, i) ==
    IF i > Len(g.asteroids) THEN g
    ELSE IF circle_collision(g.player.pos, SHIP_RADIUS,
                             g.asteroids[i].pos, g.asteroids[i].radius)
         THEN [g EXCEPT !.lives = @ - 1,
                        !.player = Player_reset(@),
                        !.game_over = IF g.lives - 1 < 0 THEN TRUE ELSE @]
         ELSE player_vs_asteroids_late_over(g, i + 1)

(* Mutant: the asteroid that hit the player is taken out of the set. *)
RECURSIVE player_vs_asteroids_removes_rock(_, _)
player_vs_asteroids_removes_rock(g, i) ==
    IF i > Len(g.asteroids) THEN g
    ELSE IF circle_collision(g.player.pos, SHIP_RADIUS,
                             g.asteroids[i].pos, g.asteroids[i].radius)
         THEN [g EXCEPT !.lives = @ - 1,
                        !.player = Player_reset(@),
                        !.game_over = IF g.lives - 1 <= 0 THEN TRUE ELSE @,
                        !.asteroids = SubSeq(@, 1, i - 1) \o SubSeq(@, i + 1, Len(@))]
         ELSE player_vs_asteroids_removes_rock(g, i + 1)

RECURSIVE player_vs_asteroids(_, _)
player_vs_asteroids(g, i) ==
    IF i > Len(g.asteroids) THEN g
    ELSE IF circle_collision(g.player.pos, SHIP_RADIUS,
                             g.asteroids[i].pos, g.asteroids[i].radius)
         THEN [g EXCEPT !.lives = @ - 1,
                        !.player = Player_reset(@),
                        !.game_over = IF g.lives - 1 <= 0 THEN TRUE ELSE @]
         ELSE player_vs_asteroids(g, i + 1)

(* Mutant: the invulnerability timer is not consulted. *)
collide_player_ignores_invuln(g) == player_vs_asteroids(g, 1)

collide_player(g) ==
    IF g.player.invuln <= 0 THEN player_vs_asteroids(g, 1) ELSE g

handle_collisions(g, rnd) == collide_player(collide_bullets(g, rnd))

(* Mutant: the restart key resets score, lives, wave and the bullets in a   *)
(* playing frame too.                                                       *)
advance_restart_resets(g, inp) ==
    LET g0 == IF inp.restart
              THEN [g EXCEPT !.score = 0, !.lives = LIVES_START, !.wave = 1,
                             !.bullets = <<>>]
              ELSE g
        p1 == Player_update(g0.player, inp)
        sh == IF inp.fire THEN Player_shoot(p1) ELSE [p |-> p1, b |-> <<>>]
        b1 == g0.bullets \o sh.b
        b2 == [k \in 1 .. Len(b1) |-> Bullet_update(b1[k], inp.dt)]
        a1 == [k \in 1 .. Len(g0.asteroids) |-> Asteroid_update(g0.asteroids[k], inp.dt)]
    IN  [g0 EXCEPT !.player = sh.p, !.bullets = remove_dead(b2), !.asteroids = a1]

(* Mutant: the bullet is spawned after the bullets were advanced. *)
advance_spawns_late(g, inp) ==
    LET p1 == Player_update(g.player, inp)
        sh == IF inp.fire THEN Player_shoot(p1) ELSE [p |-> p1, b |-> <<>>]
        b2 == [k \in 1 .. Len(g.bullets) |-> Bullet_update(g.bullets[k], inp.dt)]
        a1 == [k \in 1 .. Len(g.asteroids) |-> Asteroid_update(g.asteroids[k], inp.dt)]
    IN  [g EXCEPT !.player = sh.p, !.bullets = remove_dead(b2) \o sh.b, !.asteroids = a1]

(* Game::update up to the call of handle_collisions, lines 428-461. *)
advance(g, inp) ==
    LET p1 == Player_update(g.player, inp)
        sh == IF inp.fire THEN Player_shoot(p1) ELSE [p |-> p1, b |-> <<>>]
        b1 == g.bullets \o sh.b
        b2 == [k \in 1 .. Len(b1) |-> Bullet_update(b1[k], inp.dt)]
        a1 == [k \in 1 .. Len(g.asteroids) |-> Asteroid_update(g.asteroids[k], inp.dt)]
    IN  [g EXCEPT !.player = sh.p, !.bullets = remove_dead(b2), !.asteroids = a1]

(* Game::update of a game that is over, lines 419-426, when the restart    *)
(* key is not pressed: it returns at once.                                  *)
(* Mutant: the physics runs although the game is over. *)
frozen_runs_physics(g, inp) ==
    LET p1 == Player_update(g.player, inp)
    IN  [g EXCEPT !.player = p1,
                  !.asteroids = [k \in 1 .. Len(g.asteroids) |->
                                    Asteroid_update(g.asteroids[k], inp.dt)]]

frozen(g, inp) == g

(* The end of Game::update, lines 465-470, when the asteroids are gone. *)
(* Mutant: the wave is spawned before the wave number is raised. *)
next_wave_spawns_first(g, sp) ==
    LET g1 == spawn_wave(g, g.wave, sp)
    IN  [g1 EXCEPT !.wave = @ + 1, !.player.invuln = INVULN_TIME]

(* Mutant: the wave clear puts the player back as a life loss does. *)
next_wave_recentres(g, sp) ==
    LET g1 == [g EXCEPT !.wave = @ + 1, !.player = Player_reset(g.player)]
    IN  spawn_wave(g1, g1.wave, sp)

(* Mutant: the wave is counted but its asteroids are not spawned. *)
next_wave_spawns_none(g, sp) ==
    [g EXCEPT !.wave = @ + 1, !.player.invuln = INVULN_TIME]

next_wave(g, sp) ==
    LET g1 == [g EXCEPT !.wave = @ + 1, !.player.invuln = INVULN_TIME]
    IN  spawn_wave(g1, g1.wave, sp)

(* Game::draw, lines 557-560: whether the frame draws the player's ship. *)
draws_player(g) == ~g.game_over \/ g.player.invuln > 0

(* The velocity draws a frame may need: four per asteroid. *)
child_draws(n) == [1 .. n -> [1 .. 4 -> VelDraws]]

----------------------------------------------------------------------------
(* Utility functions of src/unnamed/part_000 *)

WrapPosition(pos) ==
    LET x == IF pos.x < 0 THEN pos.x + SCREEN_WIDTH
             ELSE IF pos.x > SCREEN_WIDTH THEN pos.x - SCREEN_WIDTH
             ELSE pos.x
        y == IF pos.y < 0 THEN pos.y + SCREEN_HEIGHT
             ELSE IF pos.y > SCREEN_HEIGHT THEN pos.y - SCREEN_HEIGHT
             ELSE pos.y
    IN  Vector2(x, y)

VecFromAngle(angle) == Vector2(Cos(angle), Sin(angle))

VecLen(v) == ISqrt(v.x * v.x + v.y * v.y)

VecScale(v, num, den) == Vector2(Quot(v.x * num, den), Quot(v.y * num, den))

VecAdd(a, b) == Vector2(a.x + b.x, a.y + b.y)

VecClampLength(v, maxLen) ==
    IF v.x * v.x + v.y * v.y > maxLen * maxLen
    THEN VecScale(v, maxLen, VecLen(v))
    ELSE v

CircleCollision(p1, r1, p2, r2) ==
    LET dx == p1.x - p2.x
        dy == p1.y - p2.y
    IN  (dx * dx + dy * dy) <= (r1 + r2) * (r1 + r2)

RandomAsteroidVelocity(size, d) ==
    VecScale(VecFromAngle(d.angle),
             ASTEROID_BASE_SPEED + d.speed + (3 - size) * 20, UNIT)

(* struct Bullet, src/unnamed/part_000 111-131 *)

Bullet_New(p, v) == [pos |-> p, vel |-> v, life |-> BULLET_LIFETIME]

Bullet_Update(b, dt) ==
    [pos |-> WrapPosition(VecAdd(b.pos, VecScale(b.vel, dt, MS))),
     vel |-> b.vel,
     life |-> b.life - dt]

(* struct Asteroid, src/unnamed/part_000 137-180 (outline left out) *)

Asteroid_New(p, s, d) ==
    [pos |-> p,
     size |-> s,
     radius |-> IF s = 3 THEN 42 ELSE IF s = 2 THEN 26 ELSE 14,
     vel |-> RandomAsteroidVelocity(s, d)]

Asteroid_Update(a, dt) ==
    [a EXCEPT !.pos = WrapPosition(VecAdd(a.pos, VecScale(a.vel, dt, MS)))]

(* struct Player, src/unnamed/part_000 186-266 *)

Player_Reset(p) ==
    [pos |-> Vector2(SCREEN_WIDTH \div 2, SCREEN_HEIGHT \div 2),
     vel |-> Vector2(0, 0),
     angle |-> -(PI \div 2),
     cooldown |-> 0,
     invuln |-> INVULN_TIME,
     alive |-> TRUE]

(* Player::Player runs Reset on the fields it has not yet set. *)
Player_New == Player_Reset([alive |-> FALSE])

Player_Update(p, inp) ==
    LET dt == inp.dt
        turn == Quot(SHIP_TURN_SPEED * dt, MS)
        a1 == IF inp.left THEN p.angle - turn ELSE p.angle
        a2 == IF inp.right THEN a1 + turn ELSE a1
        v1 == IF inp.up
              THEN VecAdd(p.vel, VecScale(VecFromAngle(a2), SHIP_ACCEL * dt, UNIT * MS))
              ELSE p.vel
        v2 == VecScale(v1, PowFix(SHIP_FRICTION, Quot(dt * 60, MS)), FIX)
        v3 == VecClampLength(v2, SHIP_MAX_SPEED)
        p1 == WrapPosition(VecAdd(p.pos, VecScale(v3, dt, MS)))
    IN  [pos |-> p1,
         vel |-> v3,
         angle |-> a2,
         cooldown |-> IF p.cooldown > 0 THEN p.cooldown - dt ELSE p.cooldown,
         invuln |-> IF p.invuln > 0 THEN p.invuln - dt ELSE p.invuln,
         alive |-> p.alive]

Player_CanShoot(p) == p.cooldown <= 0

(* Player::Shoot: the player after the call and the bullet returned. *)
Player_Shoot(p) ==
    LET dir == VecFromAngle(p.angle)
        bp == VecAdd(p.pos, VecScale(dir, SHIP_RADIUS + NOSE_OFFSET, UNIT))
        bv == VecAdd(p.vel, VecScale(dir, BULLET_SPEED, UNIT))
    IN  [p |-> [p EXCEPT !.cooldown = BULLET_COOLDOWN], b |-> Bullet_New(bp, bv)]

(* struct Game, src/unnamed/part_000 272-424 *)

SpawnAccepts(pos, p) ==
    ~CircleCollision(pos, SPAWN_RADIUS, p.pos, PLAYER_CLEARANCE)

SpawnDraws(p, count) ==
    [1 .. count -> [pos : {c \in PosDraws : SpawnAccepts(c, p)}, vel : VelDraws]]

SpawnWave(g, sp) ==
    [g EXCEPT !.asteroids =
        [i \in 1 .. (3 + g.wave) |-> Asteroid_New(sp[i].pos, 3, sp[i].vel)]]

Game_Reset(g, sp) ==
    SpawnWave([g EXCEPT !.score = 0, !.lives = LIVES_START, !.wave = 1,
                        !.game_over = FALSE,
                        !.player = Player_Reset(g.player),
                        !.bullets = <<>>], sp)

RECURSIVE FirstHit(_, _, _)
FirstHit(bs, a, j) ==
    IF j > Len(bs) THEN 0
    ELSE IF CircleCollision(bs[j].pos, BULLET_RADIUS, a.pos, a.radius) THEN j
    ELSE FirstHit(bs, a, j + 1)

(* The loop of HandleCollisions over the asteroids from index i on.  st     *)
(* carries bullets, score and newAsteroids; rnd[i] holds the velocity draws *)
(* of the children of asteroid i.                                           *)
RECURSIVE BulletsVsAsteroids(_, _, _, _)
BulletsVsAsteroids(as, rnd, i, st) ==
    IF i > Len(as) THEN st
    ELSE LET a == as[i]
             j == FirstHit(st.bullets, a, 1)
         IN  IF j = 0
             THEN BulletsVsAsteroids(as, rnd, i + 1, [st EXCEPT !.new = Append(@, a)])
             ELSE BulletsVsAsteroids(as, rnd, i + 1,
                      [st EXCEPT !.bullets[j].life = 0,
                                 !.score = @ + 10 * a.size,
                                 !.new = IF a.size > 1
                                         THEN @ \o <<Asteroid_New(a.pos, a.size - 1, rnd[i][1]),
                                                     Asteroid_New(a.pos, a.size - 1, rnd[i][2])>>
                                         ELSE @])

(* First part of HandleCollisions, lines 359-385. *)
CollideBullets(g, rnd) ==
    LET st == BulletsVsAsteroids(g.asteroids, rnd, 1,
                  [bullets |-> g.bullets, score |-> g.score, new |-> <<>>])
    IN  [g EXCEPT !.asteroids = st.new, !.score = st.score, !.bullets = st.bullets]

(* Second part of HandleCollisions, lines 387-400. *)
RECURSIVE PlayerVsAsteroids(_, _)
PlayerVsAsteroids(g, i) ==
    IF i > Len(g.asteroids) THEN g
    ELSE IF CircleCollision(g.player.pos, SHIP_RADIUS,
                            g.asteroids[i].pos, g.asteroids[i].radius)
         THEN [g EXCEPT !.lives = @ - 1,
                        !.player = Player_Reset(@),
                        !.game_over = IF g.lives - 1 <= 0 THEN TRUE ELSE @]
         ELSE PlayerVsAsteroids(g, i + 1)

CollidePlayer(g) ==
    IF g.player.invuln <= 0 THEN PlayerVsAsteroids(g, 1) ELSE g

HandleCollisions(g, rnd) == CollidePlayer(CollideBullets(g, rnd))

(* Game::Update up to the call of HandleCollisions, lines 324-337. *)
Advance(g, inp) ==
    LET p1 == Player_Update(g.player, inp)
        sh == IF inp.fire /\ Player_CanShoot(p1)
              THEN LET r == Player_Shoot(p1) IN [p |-> r.p, b |-> <<r.b>>]
              ELSE [p |-> p1, b |-> <<>>]
        b1 == g.bullets \o sh.b
        b2 == [k \in 1 .. Len(b1) |-> Bullet_Update(b1[k], inp.dt)]
        a1 == [k \in 1 .. Len(g.asteroids) |-> Asteroid_Update(g.asteroids[k], inp.dt)]
    IN  [g EXCEPT !.player = sh.p,
                  !.bullets = SelectSeq(b2, LAMBDA b : ~(b.life <= 0)),
                  !.asteroids = a1]

(* Game::Update of a game that is over, lines 317-322, when the restart    *)
(* key is not pressed: it returns at once.                                  *)
Frozen(g, inp) == g

(* The end of Game::Update, lines 341-346, when the asteroids are gone. *)
NextWave(g, sp) ==
    SpawnWave([g EXCEPT !.wave = @ + 1, !.player.invuln = INVULN_TIME], sp)

ChildDraws(n) == [1 .. n -> [1 .. 2 -> VelDraws]]

(* Game::Draw, lines 409-410: whether the frame draws the player's ship. *)
DrawsPlayer(g) == ~g.game_over \/ g.player.invuln > 0

----------------------------------------------------------------------------
(* The state machine *)

NoInput ==
    [dt |-> 0, left |-> FALSE, right |-> FALSE, up |-> FALSE,
     fire |-> FALSE, restart |-> FALSE]

(* What a frame saw: its kind, the game when handle_collisions was entered  *)
(* (before), after the bullets-vs-asteroids part (shot) and when            *)
(* handle_collisions returned (hit).  Frames that run no physics record the *)
(* game they end with.                                                      *)
Seen(kind, before, shot, hit) ==
    [kind |-> kind, before |-> before, shot |-> shot, hit |-> hit]

Becomes(g) ==
    /\ player' = g.player
    /\ bullets' = g.bullets
    /\ asteroids' = g.asteroids
    /\ score' = g.score
    /\ lives' = g.lives
    /\ wave' = g.wave
    /\ game_over' = g.game_over

(* Game::Game, src/main.cpp 349-356 *)
Game_Game(sp) ==
    spawn_wave([player |-> Player_Player, bullets |-> <<>>, asteroids |-> <<>>,
                score |-> 0, lives |-> LIVES_START, wave |-> 1,
                game_over |-> FALSE], 1, sp)

InitMain ==
    /\ impl = "main"
    /\ \E sp \in spawn_draws(Player_Player, 3 + 1) :
           LET g == Game_Game(sp)
           IN  /\ player = g.player
               /\ bullets = g.bullets
               /\ asteroids = g.asteroids
               /\ score = g.score
               /\ lives = g.lives
               /\ wave = g.wave
               /\ game_over = g.game_over
               /\ mid = Seen("init", g, g, g)
    /\ frames = 0
    /\ input = NoInput

(* Game::update, src/main.cpp 417-471: one frame of the main loop. *)
update ==
    /\ impl = "main"
    /\ frames < MaxFrames
    /\ \E inp \in Inputs :
        /\ input' = inp
        /\ frames' = frames + 1
        /\ impl' = impl
        /\ IF game_over
           THEN IF inp.restart
                THEN \E sp \in spawn_draws(Player_reset(player), 3 + 1) :
                        LET g == Game_reset(TheGame, sp)
                        IN  Becomes(g) /\ mid' = Seen("restart", g, g, g)
                ELSE LET g == frozen(TheGame, inp)
                     IN  Becomes(g) /\ mid' = Seen("frozen", g, g, g)
           ELSE \E rnd \in child_draws(Len(asteroids)) :
                    LET g1 == advance(TheGame, inp)
                        g2 == collide_bullets(g1, rnd)
                        g3 == collide_player(g2)
                    IN  /\ mid' = Seen("play", g1, g2, g3)
                        /\ IF g3.asteroids = <<>>
                           THEN \E sp \in spawn_draws(g3.player, 3 + g3.wave + 1) :
                                    Becomes(next_wave(g3, sp))
                           ELSE Becomes(g3)

(* Game::Game, src/unnamed/part_000 274-285 *)
Game_New(sp) ==
    SpawnWave([player |-> Player_New, bullets |-> <<>>, asteroids |-> <<>>,
               score |-> 0, lives |-> LIVES_START, wave |-> 1,
               game_over |-> FALSE], sp)

InitPart ==
    /\ impl = "part"
    /\ \E sp \in SpawnDraws(Player_New, 3 + 1) :
           LET g == Game_New(sp)
           IN  /\ player = g.player
               /\ bullets = g.bullets
               /\ asteroids = g.asteroids
               /\ score = g.score
               /\ lives = g.lives
               /\ wave = g.wave
               /\ game_over = g.game_over
               /\ mid = Seen("init", g, g, g)
    /\ frames = 0
    /\ input = NoInput

(* Game::Update, src/unnamed/part_000 315-355: one frame of the main loop   *)
(* (the fullscreen toggle changes no state of the game).                    *)
Update ==
    /\ impl = "part"
    /\ frames < MaxFrames
    /\ \E inp \in Inputs :
        /\ input' = inp
        /\ frames' = frames + 1
        /\ impl' = impl
        /\ IF game_over
           THEN IF inp.restart
                THEN \E sp \in SpawnDraws(Player_Reset(player), 3 + 1) :
                        LET g == Game_Reset(TheGame, sp)
                        IN  Becomes(g) /\ mid' = Seen("restart", g, g, g)
                ELSE LET g == Frozen(TheGame, inp)
                     IN  Becomes(g) /\ mid' = Seen("frozen", g, g, g)
           ELSE \E rnd \in ChildDraws(Len(asteroids)) :
                    LET g1 == Advance(TheGame, inp)
                        g2 == CollideBullets(g1, rnd)
                        g3 == CollidePlayer(g2)
                    IN  /\ mid' = Seen("play", g1, g2, g3)
                        /\ IF g3.asteroids = <<>>
                           THEN \E sp \in SpawnDraws(g3.player, 3 + g3.wave + 1) :
                                    Becomes(NextWave(g3, sp))
                           ELSE Becomes(g3)

Init == InitMain \/ InitPart

Next == update \/ Update

Spec == Init /\ [][Next]_vars

(* The same two programs constructed under other draws of the generator:    *)
(* every asteroid of the first wave is spawned either 80 pixels above the   *)
(* lower edge of the screen or 217 pixels above the player.                 *)
EdgeDraws == { Vector2(450, 570), Vector2(450, 108) }

edge_draws(p, count) ==
    [1 .. count -> [pos : {c \in EdgeDraws : spawn_accepts(c, p)}, vel : VelDraws]]

EdgeSpawnDraws(p, count) ==
    [1 .. count -> [pos : {c \in EdgeDraws : SpawnAccepts(c, p)}, vel : VelDraws]]

Starts(g) ==
    /\ player = g.player
    /\ bullets = g.bullets
    /\ asteroids = g.asteroids
    /\ score = g.score
    /\ lives = g.lives
    /\ wave = g.wave
    /\ game_over = g.game_over
    /\ mid = Seen("init", g, g, g)

InitEdge ==
    /\ \/ /\ impl = "main"
          /\ \E sp \in edge_draws(Player_Player, 3 + 1) :
                 Starts(Game_Game(sp))
       \/ /\ impl = "part"
          /\ \E sp \in EdgeSpawnDraws(Player_New, 3 + 1) :
                 Starts(Game_New(sp))
    /\ frames = 0
    /\ input = NoInput

SpecEdge == InitEdge /\ [][Next]_vars

(* The same two programs constructed under draws that put asteroids of the  *)
(* first wave on the line of fire of a ship that has turned left and        *)
(* thrust for one frame: the bullets of the three frames after it reach     *)
(* the asteroid spawned at (161, 205), its children and their children.     *)
DriftDraws == { Vector2(161, 205), Vector2(450, 43) }

drift_draws(p, count) ==
    [1 .. count -> [pos : {c \in DriftDraws : spawn_accepts(c, p)}, vel : VelDraws]]

DriftSpawnDraws(p, count) ==
    [1 .. count -> [pos : {c \in DriftDraws : SpawnAccepts(c, p)}, vel : VelDraws]]

InitDrift ==
    /\ \/ /\ impl = "main"
          /\ \E sp \in drift_draws(Player_Player, 3 + 1) :
                 Starts(Game_Game(sp))
       \/ /\ impl = "part"
          /\ \E sp \in DriftSpawnDraws(Player_New, 3 + 1) :
                 Starts(Game_New(sp))
    /\ frames = 0
    /\ input = NoInput

SpecDrift == InitDrift /\ [][Next]_vars

----------------------------------------------------------------------------
(* The rejection loop of the wave spawn, one candidate per step *)

(* Mutant: the exclusion circle is ten times as large. *)
spawn_rejects_wide(pos, p) ==
    circle_collision(pos, 10 * SPAWN_RADIUS, p.pos, 10 * PLAYER_CLEARANCE)

(* The test of the loop, src/main.cpp 390: the candidate is drawn again. *)
spawn_rejects(pos, p) ==
    circle_collision(pos, SPAWN_RADIUS, p.pos, PLAYER_CLEARANCE)

(* The test of the loop, src/unnamed/part_000 298. *)
SpawnRejects(pos, p) ==
    CircleCollision(pos, SPAWN_RADIUS, p.pos, PLAYER_CLEARANCE)

(* Positions the player may have when a wave is spawned: the corners, the   *)
(* edges and the centre of the screen, and a point 200 to the left of it.   *)
PlayerPlaces == { Vector2(x, y) : x \in {0, 250, 450, 900}, y \in {0, 325, 650} }

(* Wave numbers spawn_wave is called with. *)
WaveDraws == {1, 2}

(* Candidates the generator can draw: two corners of the screen and the     *)
(* point 200 above its centre.                                              *)
SpawnCandidates == { Vector2(0, 0), Vector2(450, 125), Vector2(899, 649) }

(* The loops at their entry: the asteroids cleared, none placed yet.  mid   *)
(* records whether the loop has drawn a candidate again so far.             *)
InitSpawn ==
    /\ \E q \in PlayerPlaces :
        \/ impl = "main" /\ player = [Player_Player EXCEPT !.pos = q]
        \/ impl = "part" /\ player = [Player_New EXCEPT !.pos = q]
    /\ wave \in WaveDraws
    /\ bullets = <<>>
    /\ asteroids = <<>>
    /\ score = 0
    /\ lives = LIVES_START
    /\ game_over = FALSE
    /\ frames = 0
    /\ input = NoInput
    /\ mid = [kind |-> "spawn", again |-> FALSE]

(* Game::spawn_wave, src/main.cpp 384-396: a candidate that passes the test *)
(* is placed as a Large asteroid.                                           *)
spawn_wave_accept ==
    /\ impl = "main"
    /\ Len(asteroids) < 3 + wave
    /\ \E c \in SpawnCandidates, d \in VelDraws :
        /\ ~spawn_rejects(c, player)
        /\ asteroids' = Append(asteroids, Asteroid_Asteroid(c, 3, d))
    /\ UNCHANGED <<impl, player, bullets, score, lives, wave, game_over,
                   frames, input, mid>>

(* Game::spawn_wave, src/main.cpp 386-393: a candidate that fails the test  *)
(* is dropped and the loop draws again.                                     *)
spawn_wave_reject ==
    /\ impl = "main"
    /\ Len(asteroids) < 3 + wave
    /\ \E c \in SpawnCandidates : spawn_rejects(c, player)
    /\ mid' = [mid EXCEPT !.again = TRUE]
    /\ UNCHANGED <<impl, player, bullets, asteroids, score, lives, wave,
                   game_over, frames, input>>

(* Game::SpawnWave, src/unnamed/part_000 292-301. *)
SpawnWaveAccept ==
    /\ impl = "part"
    /\ Len(asteroids) < 3 + wave
    /\ \E c \in SpawnCandidates, d \in VelDraws :
        /\ ~SpawnRejects(c, player)
        /\ asteroids' = Append(asteroids, Asteroid_New(c, 3, d))
    /\ UNCHANGED <<impl, player, bullets, score, lives, wave, game_over,
                   frames, input, mid>>

(* Game::SpawnWave, src/unnamed/part_000 295-298. *)
SpawnWaveReject ==
    /\ impl = "part"
    /\ Len(asteroids) < 3 + wave
    /\ \E c \in SpawnCandidates : SpawnRejects(c, player)
    /\ mid' = [mid EXCEPT !.again = TRUE]
    /\ UNCHANGED <<impl, player, bullets, asteroids, score, lives, wave,
                   game_over, frames, input>>

NextSpawn ==
    spawn_wave_accept \/ spawn_wave_reject \/ SpawnWaveAccept \/ SpawnWaveReject

(* Fair sampling: a candidate that passes the test is drawn eventually. *)
SpecSpawn ==
    /\ InitSpawn
    /\ [][NextSpawn]_vars
    /\ WF_vars(spawn_wave_accept)
    /\ WF_vars(SpawnWaveAccept)

----------------------------------------------------------------------------
(* Notions the claims are stated with *)

Centre == Vector2(450, 325)

DistSq(p, q) == (p.x - q.x) * (p.x - q.x) + (p.y - q.y) * (p.y - q.y)

(* The asteroids of game g whose circle the player's circle overlaps. *)
Touching(g) ==
    {i \in 1 .. Len(g.asteroids) :
        DistSq(g.player.pos, g.asteroids[i].pos)
            <= (12 + g.asteroids[i].radius) * (12 + g.asteroids[i].radius)}

(* The bullets of game g that overlap its asteroid i. *)
BulletsOn(g, i) ==
    {j \in 1 .. Len(g.bullets) :
        DistSq(g.bullets[j].pos, g.asteroids[i].pos)
            <= (2 + g.asteroids[i].radius) * (2 + g.asteroids[i].radius)}

(* The asteroids of game g hit in its projectile-asteroid pass. *)
Destroyed(g) == {i \in 1 .. Len(g.asteroids) : BulletsOn(g, i) # {}}

RECURSIVE Points(_, _)
Points(g, I) ==
    IF I = {} THEN 0
    ELSE LET i == CHOOSE k \in I : TRUE
         IN  10 * g.asteroids[i].size + Points(g, I \ {i})

(* How many asteroids of the sequence as, among the indices I, have         *)
(* position pos and tier size.                                              *)
CountOf(as, I, pos, size) ==
    Cardinality({i \in I : as[i].pos = pos /\ as[i].size = size})

AllLarge(as) == \A i \in 1 .. Len(as) : as[i].size = 3 /\ as[i].radius = 42

----------------------------------------------------------------------------
(* C1: in a frame whose collision resolution finds the invulnerability     *)
(* timer above 0, lives is unchanged by the frame, whatever asteroids       *)
(* overlap the player.                                                      *)
C1_InvulnerableKeepsLives ==
    [][ (mid'.kind = "play" /\ mid'.before.player.invuln > 0) => lives' = lives ]_vars

(* C1 witness: such a frame with an asteroid on the player. *)
C1_Witness ==
    /\ mid.kind = "play"
    /\ mid.before.player.invuln > 0
    /\ Touching(mid.shot) # {}
    /\ lives < LIVES_START

(* C2: in a playing frame whose collision resolution finds the timer at 0   *)
(* or below and the player overlapping an asteroid left by the projectile   *)
(* pass, lives drops by exactly 1, the player is at the screen centre with  *)
(* zero velocity and the timer is 2.0 s.                                    *)
C2_HitCostsOneLife ==
    [][ (mid'.kind = "play" /\ mid'.before.player.invuln <= 0 /\ Touching(mid'.shot) # {})
        => /\ lives' = lives - 1
           /\ player'.pos = Centre
           /\ player'.vel = Vector2(0, 0)
           /\ player'.invuln = 2000 ]_vars

(* C2 witness: such a frame with several asteroids on the player. *)
C2_Witness ==
    /\ mid.kind = "play"
    /\ mid.before.player.invuln <= 0
    /\ Cardinality(Touching(mid.shot)) >= 2
    /\ lives = mid.before.lives - 1

(* C3: at every frame boundary lives is in 0..3 and the game is over        *)
(* exactly when lives is 0.                                                 *)
C3_LivesAndGameOver ==
    /\ lives \in 0 .. 3
    /\ game_over <=> (lives = 0)

(* C3 witness: the frame in which lives reaches 0. *)
C3_Witness ==
    /\ mid.kind = "play"
    /\ mid.before.lives = 1
    /\ lives = 0
    /\ game_over

(* C4: a frame that starts with the game over and without the restart key   *)
(* leaves player, bullets, asteroids, score, lives, wave and the flag       *)
(* unchanged, whatever the other keys and dt.                               *)
C4_GameOverFreezes ==
    [][ (game_over /\ ~input'.restart)
        => UNCHANGED <<player, bullets, asteroids, score, lives, wave, game_over>> ]_vars

(* C4 witness: a frozen frame with dt > 0 and the fire key held. *)
C4_Witness ==
    /\ mid.kind = "frozen"
    /\ game_over
    /\ input.dt > 0
    /\ input.fire
    /\ ~input.restart

(* C5: a frame that starts with the game over and the restart key pressed   *)
(* ends with score 0, lives 3, wave 1, the flag off, no bullet, the player  *)
(* reset and not advanced, and exactly 4 Large asteroids, each where it was *)
(* spawned.                                                                 *)
C5_RestartResets ==
    [][ (game_over /\ input'.restart)
        => /\ score' = 0 /\ lives' = 3 /\ wave' = 1 /\ ~game_over'
           /\ bullets' = <<>>
           /\ player' = [pos |-> Centre, vel |-> Vector2(0, 0), angle |-> -1571,
                         cooldown |-> 0, invuln |-> 2000, alive |-> TRUE]
           /\ Len(asteroids') = 4
           /\ AllLarge(asteroids')
           /\ \A i \in 1 .. Len(asteroids') : asteroids'[i].pos \in PosDraws ]_vars

(* C5 witness: the state a restart leaves, entered with keys held and       *)
(* dt > 0.                                                                  *)
C5_Witness ==
    /\ mid.kind = "restart"
    /\ input.restart /\ input.fire /\ input.dt > 0
    /\ lives = 3 /\ ~game_over

(* C6: the projectile pass removes every hit asteroid, puts two asteroids   *)
(* of the next smaller tier at the place of a hit Large or Medium one and   *)
(* nothing at the place of a hit Small one, and keeps the others as they    *)
(* are.                                                                     *)
C6_Fragmentation ==
    mid.kind = "play" =>
        LET b == mid.before
            a == mid.shot.asteroids
            hit == Destroyed(b)
            kept == (1 .. Len(b.asteroids)) \ hit
            places == {b.asteroids[i].pos : i \in 1 .. Len(b.asteroids)}
                        \cup {a[i].pos : i \in 1 .. Len(a)}
        IN  /\ \A k \in 1 .. Len(a) : a[k].size \in 1 .. 3
            /\ \A pos \in places : \A size \in 1 .. 3 :
                  CountOf(a, 1 .. Len(a), pos, size)
                      = CountOf(b.asteroids, kept, pos, size)
                        + 2 * CountOf(b.asteroids, hit, pos, size + 1)
            /\ \A i \in kept :
                  Cardinality({k \in 1 .. Len(a) : a[k] = b.asteroids[i]})
                      >= Cardinality({k \in kept : b.asteroids[k] = b.asteroids[i]})

(* C6 witness: a pass that hits a Medium asteroid and misses another. *)
C6_Witness ==
    /\ mid.kind = "play"
    /\ \E i \in Destroyed(mid.before) : mid.before.asteroids[i].size = 2
    /\ Destroyed(mid.before) # 1 .. Len(mid.before.asteroids)

(* C7: in a playing frame the score grows by the sum of 10 x tier over the  *)
(* asteroids destroyed in it, each counted once.                            *)
C7_ScorePerAsteroid ==
    [][ mid'.kind = "play"
        => score' = score + Points(mid'.before, Destroyed(mid'.before)) ]_vars

(* C7 witness: a destroyed asteroid that two bullets overlap. *)
C7_Witness ==
    /\ mid.kind = "play"
    /\ \E i \in Destroyed(mid.before) : Cardinality(BulletsOn(mid.before, i)) >= 2
    /\ score > 0

(* C8: a playing frame whose collision resolution leaves no asteroid raises *)
(* wave by 1, sets the timer to 2.0 s and ends with 3 + wave Large          *)
(* asteroids; one that leaves asteroids keeps wave and spawns none.         *)
C8_WaveAdvance ==
    [][ mid'.kind = "play"
        => IF mid'.hit.asteroids = <<>>
           THEN /\ wave' = wave + 1
                /\ player'.invuln = 2000
                /\ Len(asteroids') = 3 + wave'
                /\ AllLarge(asteroids')
           ELSE /\ wave' = wave
                /\ asteroids' = mid'.hit.asteroids ]_vars

(* C8 witness: the end of the frame that cleared wave 1. *)
C8_Witness ==
    /\ mid.kind = "play"
    /\ mid.hit.asteroids = <<>>
    /\ wave = 2
    /\ Len(asteroids) = 5

(* C9: right after a wave is spawned (construction, restart, wave clear)    *)
(* every asteroid is farther than 200 from the player.                      *)
C9_SpawnClearance ==
    (mid.kind \in {"init", "restart"} \/ (mid.kind = "play" /\ mid.hit.asteroids = <<>>))
        => \A i \in 1 .. Len(asteroids) :
               DistSq(asteroids[i].pos, player.pos) > 200 * 200

(* C9 witness: a wave spawned at a wave clear while a candidate at          *)
(* distance exactly 200 from the player was on offer.                       *)
C9_Witness ==
    /\ mid.kind = "play"
    /\ mid.hit.asteroids = <<>>
    /\ asteroids # <<>>
    /\ \E c \in PosDraws : DistSq(c, player.pos) = 200 * 200

(* C10 as stated: over every frame wave and score never decrease and lives  *)
(* never increases.                                                         *)
C10_Original ==
    [][ wave' >= wave /\ score' >= score /\ lives' <= lives ]_vars

(* C10 as amended: the same over every frame that is not a restart (a frame *)
(* that starts with the game over and the restart key pressed).             *)
C10_MonotoneExceptRestart ==
    [][ ~(game_over /\ input'.restart)
        => (wave' >= wave /\ score' >= score /\ lives' <= lives) ]_vars

(* C10 witness: a playing frame after a score and a life loss. *)
C10_Witness ==
    /\ mid.kind = "play"
    /\ score > mid.before.score
    /\ mid.before.score > 0
    /\ ~game_over

----------------------------------------------------------------------------
(* Notions of the later claims *)

InRange(pos) ==
    /\ 0 <= pos.x /\ pos.x < 900
    /\ 0 <= pos.y /\ pos.y < 650

Abs(n) == IF n < 0 THEN -n ELSE n

(* A step of dt at velocity vel moves by at most one screen extent. *)
ShortStep(vel, dt) ==
    /\ Abs(Quot(vel.x * dt, 1000)) <= 900
    /\ Abs(Quot(vel.y * dt, 1000)) <= 650

(* C11 as stated: the update step of a playing frame takes the player,      *)
(* every asteroid and (in a frame that fires nothing) every bullet from a   *)
(* position with 0 <= x < 900 and 0 <= y < 650, by a step of at most one    *)
(* screen extent, to a position in that range again; and the wrap of either *)
(* program leaves a position in that range as it is.                        *)
C11_Original ==
    [][ mid'.kind = "play" =>
        LET b == mid'.before
            dt == input'.dt
        IN  /\ (InRange(player.pos) /\ ShortStep(b.player.vel, dt))
                   => InRange(b.player.pos)
            /\ \A k \in 1 .. Len(asteroids) :
                   (InRange(asteroids[k].pos) /\ ShortStep(asteroids[k].vel, dt))
                       => InRange(b.asteroids[k].pos)
            /\ (~input'.fire /\ \A k \in 1 .. Len(bullets) :
                                   InRange(bullets[k].pos) /\ ShortStep(bullets[k].vel, dt))
                   => \A k \in 1 .. Len(b.bullets) : InRange(b.bullets[k].pos)
            /\ \A k \in 1 .. Len(asteroids) :
                   InRange(asteroids[k].pos)
                       => /\ wrap_position(asteroids[k].pos) = asteroids[k].pos
                          /\ WrapPosition(asteroids[k].pos) = asteroids[k].pos ]_vars

(* The bullets of bs still alive after a step of dt. *)
Survivors(bs, dt) == Cardinality({k \in 1 .. Len(bs) : bs[k].life - dt > 0})

(* C12: in a playing frame, with cd the cooldown left by the player update: *)
(* if fire is held and cd <= 0 exactly one bullet is added (it is the last  *)
(* of the set, with life 1.2 s less dt) and the cooldown becomes 0.18 s;    *)
(* if fire is held and cd > 0, or fire is not held, no bullet is added and  *)
(* the cooldown stays cd.                                                   *)
C12_FireAndCooldown ==
    [][ mid'.kind = "play" =>
        LET dt == input'.dt
            cd == IF player.cooldown > 0 THEN player.cooldown - dt ELSE player.cooldown
            b == mid'.before
            old == Survivors(bullets, dt)
        IN  IF input'.fire /\ cd <= 0
            THEN /\ b.player.cooldown = 180
                 /\ Len(b.bullets) = old + (IF 1200 - dt > 0 THEN 1 ELSE 0)
                 /\ 1200 - dt > 0 => b.bullets[Len(b.bullets)].life = 1200 - dt
            ELSE /\ b.player.cooldown = cd
                 /\ Len(b.bullets) = old
                 /\ \A k \in 1 .. Len(b.bullets) : b.bullets[k].life < 1200 - dt ]_vars

(* C12 witness: fire held while the cooldown is still running, after an     *)
(* earlier shot.                                                            *)
C12_Witness ==
    /\ mid.kind = "play"
    /\ input.fire
    /\ mid.before.player.cooldown > 0
    /\ mid.before.player.cooldown < 180
    /\ mid.before.bullets # <<>>

(* C13 as stated: the invulnerability timer is 2.0 s in the state a         *)
(* construction or a restart leaves and in the player a life loss leaves,   *)
(* and a first frame shorter than 2.0 s costs no life.                      *)
C13_Original ==
    /\ mid.kind \in {"init", "restart"} => player.invuln = 2000
    /\ (mid.kind = "play" /\ mid.hit.lives < mid.shot.lives)
           => mid.hit.player.invuln = 2000
    /\ (frames = 1 /\ input.dt < 2000) => lives = 3

(* C14 as stated: at the end of every frame no bullet of the set has a      *)
(* remaining life of 0 or less, the frame in which the game becomes over    *)
(* included.                                                                *)
C14_Original ==
    \A k \in 1 .. Len(bullets) : bullets[k].life > 0

(* Whether the frame rendered in the current state draws the ship. *)
ShipDrawn ==
    IF impl = "main" THEN draws_player(TheGame) ELSE DrawsPlayer(TheGame)

(* C15 as stated: a frame rendered while the game is over does not draw the *)
(* player's ship.                                                           *)
C15_Original == game_over => ~ShipDrawn

NoRestart(inp) == [inp EXCEPT !.restart = FALSE]

(* C16: a frame that starts with the game not over and the restart key      *)
(* pressed is a playing frame that runs as it would on the same input       *)
(* without the key (same update step, same collision resolution, result     *)
(* kept unless the wave was cleared) and resets none of score, lives and    *)
(* wave; and the flag goes from over to playing only in a restart frame.    *)
C16_RestartOnlyWhenOver ==
    [][ /\ (~game_over /\ input'.restart) =>
            /\ mid'.kind = "play"
            /\ IF impl = "main"
               THEN /\ mid'.before = advance(TheGame, NoRestart(input'))
                    /\ \E rnd \in child_draws(Len(asteroids)) :
                           mid'.hit = handle_collisions(mid'.before, rnd)
               ELSE /\ mid'.before = Advance(TheGame, NoRestart(input'))
                    /\ \E rnd \in ChildDraws(Len(asteroids)) :
                           mid'.hit = HandleCollisions(mid'.before, rnd)
            /\ mid'.hit.asteroids # <<>> =>
                   /\ player' = mid'.hit.player
                   /\ bullets' = mid'.hit.bullets
                   /\ asteroids' = mid'.hit.asteroids
            /\ score' = mid'.hit.score /\ lives' = mid'.hit.lives
            /\ score' >= score /\ wave' >= wave /\ lives' <= lives
            /\ Len(mid'.before.bullets) >= Survivors(bullets, input'.dt)
            /\ Len(mid'.before.asteroids) = Len(asteroids)
        /\ (game_over /\ ~game_over') => (input'.restart /\ mid'.kind = "restart") ]_vars

(* C16 witness: a playing frame with the restart key pressed, entered with  *)
(* points scored, a life lost and a bullet in flight.                       *)
C16_Witness ==
    /\ mid.kind = "play"
    /\ input.restart
    /\ mid.before.score > 0
    /\ mid.before.lives < 3
    /\ mid.before.bullets # <<>>
    /\ score = mid.hit.score

(* Where a step of dt at velocity vel takes an entity at pos. *)
Moved(pos, vel, dt) ==
    wrap_position(Vector2(pos.x + Quot(vel.x * dt, 1000), pos.y + Quot(vel.y * dt, 1000)))

(* C17: in a playing frame the collision resolution starts from the         *)
(* asteroids advanced by dt; a bullet fired in the frame leaves the nose of *)
(* the player as the player update left it, is advanced by dt and aged by   *)
(* dt before the projectile pass, and counts in that pass; the player pass  *)
(* follows the projectile pass and the wave check comes last.               *)
C17_StepOrder ==
    [][ mid'.kind = "play" =>
        LET dt == input'.dt
            b == mid'.before
            p == b.player
            cd == IF player.cooldown > 0 THEN player.cooldown - dt ELSE player.cooldown
            dir == Vector2(Cos(p.angle), Sin(p.angle))
            nose == Vector2(p.pos.x + Quot(dir.x * 18, 1000), p.pos.y + Quot(dir.y * 18, 1000))
            v == Vector2(p.vel.x + Quot(dir.x * 520, 1000), p.vel.y + Quot(dir.y * 520, 1000))
        IN  /\ p.pos = Moved(player.pos, p.vel, dt)
            /\ \A k \in 1 .. Len(asteroids) :
                   b.asteroids[k].pos = Moved(asteroids[k].pos, asteroids[k].vel, dt)
            /\ (input'.fire /\ cd <= 0 /\ dt < 1200) =>
                   b.bullets[Len(b.bullets)] = [pos |-> Moved(nose, v, dt), vel |-> v,
                                                life |-> 1200 - dt]
            /\ mid'.shot.score = score + Points(b, Destroyed(b))
            /\ mid'.shot.player = p
            /\ mid'.hit.asteroids = mid'.shot.asteroids
            /\ mid'.hit.lives < lives => Touching(mid'.shot) # {}
            /\ (wave' = wave + 1) <=> (mid'.hit.asteroids = <<>>) ]_vars

(* C17 witness: the only bullet of a frame, fired in it, destroys an         *)
(* asteroid in it.                                                          *)
C17_Witness ==
    /\ mid.kind = "play"
    /\ input.fire
    /\ Len(mid.before.bullets) = 1
    /\ mid.before.bullets[1].life = 1200 - input.dt
    /\ BulletsOn(mid.before, 1) = {1}
    /\ score = mid.before.score + 10 * mid.before.asteroids[1].size
    /\ score > 30

(* The bullets of bs with life left. *)
Live(bs) == Cardinality({k \in 1 .. Len(bs) : bs[k].life > 0})

(* C18 as stated: the asteroids destroyed in the projectile pass of a frame *)
(* are at most as many as the bullets that pass removed (marked with life   *)
(* 0), a bullet counting for one asteroid only.                             *)
C18_Original ==
    mid.kind = "play" =>
        Cardinality(Destroyed(mid.before))
            <= Live(mid.before.bullets) - Live(mid.shot.bullets)

(* The children of game s (after the projectile pass) of tier size that a   *)
(* bullet of game b overlaps.                                               *)
ChildrenUnderFire(b, s, size) ==
    {k \in 1 .. Len(s.asteroids) :
        /\ s.asteroids[k].size = size
        /\ \E i \in Destroyed(b) : /\ b.asteroids[i].size = size + 1
                                   /\ b.asteroids[i].pos = s.asteroids[k].pos
        /\ \E j \in 1 .. Len(b.bullets) :
               DistSq(b.bullets[j].pos, s.asteroids[k].pos)
                   <= (2 + s.asteroids[k].radius) * (2 + s.asteroids[k].radius)}

(* C19: in a playing frame a life is lost exactly when the timer is at 0 or *)
(* below and the player overlaps an asteroid of the set the projectile pass *)
(* left (children included, destroyed asteroids excluded); and that set has *)
(* every asteroid not hit and two children per hit Large or Medium one,     *)
(* whether or not a bullet overlaps the children.                           *)
C19_PlayerPassUsesNewSet ==
    mid.kind = "play" =>
        LET b == mid.before
            s == mid.shot
            h == mid.hit
            hit == Destroyed(b)
        IN  /\ s.lives = b.lives
            /\ s.player = b.player
            /\ IF s.player.invuln <= 0 /\ Touching(s) # {}
               THEN h.lives = b.lives - 1
               ELSE h.lives = b.lives
            /\ Len(s.asteroids) = Len(b.asteroids) - Cardinality(hit)
                   + 2 * Cardinality({i \in hit : b.asteroids[i].size > 1})
            /\ \A i \in hit : \A k \in 1 .. Len(s.asteroids) :
                   s.asteroids[k].pos = b.asteroids[i].pos
                       => s.asteroids[k].size >= b.asteroids[i].size - 1

(* C19 witness: with the timer at 0, a bullet destroys a Large asteroid     *)
(* that overlaps the player; its Medium children, which the bullet          *)
(* overlaps too, are in the set and no life is lost.                        *)
C19_Witness ==
    /\ mid.kind = "play"
    /\ mid.before.player.invuln <= 0
    /\ Destroyed(mid.before) \cap Touching(mid.before) # {}
    /\ ChildrenUnderFire(mid.before, mid.shot, 2) # {}
    /\ Touching(mid.shot) = {}
    /\ lives = mid.before.lives

(* C20: the player pass of a playing frame leaves the asteroids (the one    *)
(* that hit the player included), the bullets, the score and the wave as    *)
(* the projectile pass left them; it changes at most lives, the player and  *)
(* the game-over flag.                                                      *)
C20_PlayerPassFrame ==
    mid.kind = "play" =>
        /\ mid.hit.asteroids = mid.shot.asteroids
        /\ mid.hit.bullets = mid.shot.bullets
        /\ mid.hit.score = mid.shot.score
        /\ mid.hit.wave = mid.shot.wave
        /\ mid.hit.lives < mid.shot.lives =>
               \E i \in Touching(mid.shot) :
                   i \in 1 .. Len(mid.hit.asteroids)
                       /\ mid.hit.asteroids[i] = mid.shot.asteroids[i]
        /\ mid.hit.lives = mid.shot.lives =>
               (mid.hit.player = mid.shot.player /\ mid.hit.game_over = mid.shot.game_over)

(* C20 witness: a life is lost in a frame that has a bullet in flight and   *)
(* points scored.                                                           *)
C20_Witness ==
    /\ mid.kind = "play"
    /\ mid.hit.lives < mid.shot.lives
    /\ mid.shot.bullets # <<>>
    /\ mid.shot.score > 0
    /\ asteroids = mid.shot.asteroids

(* C21: a wave clear changes the player only in its invulnerability timer, *)
(* which becomes 2.0 s: position, velocity, angle and cooldown are those    *)
(* the collision resolution left; bullets, score and lives are unchanged;   *)
(* every asteroid of the new wave is farther than 200 from that position.   *)
C21_WaveClearKeepsPlayer ==
    (mid.kind = "play" /\ mid.hit.asteroids = <<>>)
        => /\ player = [mid.hit.player EXCEPT !.invuln = 2000]
           /\ bullets = mid.hit.bullets
           /\ score = mid.hit.score
           /\ lives = mid.hit.lives
           /\ game_over = mid.hit.game_over
           /\ \A i \in 1 .. Len(asteroids) :
                  DistSq(asteroids[i].pos, mid.hit.player.pos) > 200 * 200

(* C21 witness: a wave cleared by a drifting ship that is off the centre    *)
(* and has a running cooldown; the new wave holds an asteroid that is       *)
(* within 200 of the screen centre.                                         *)
C21_Witness ==
    /\ mid.kind = "play"
    /\ mid.hit.asteroids = <<>>
    /\ player.pos # Centre
    /\ player.vel # Vector2(0, 0)
    /\ player.cooldown > 0
    /\ \E i \in 1 .. Len(asteroids) : DistSq(asteroids[i].pos, Centre) <= 200 * 200

(* What an asteroid is still worth: its own points and those of all the    *)
(* asteroids it can break into (10 * size, two children of size - 1).       *)
RECURSIVE Value(_)
Value(size) == IF size <= 1 THEN 10 * size ELSE 10 * size + 2 * Value(size - 1)

RECURSIVE ValueOf(_, _)
ValueOf(as, i) == IF i > Len(as) THEN 0 ELSE Value(as[i].size) + ValueOf(as, i + 1)

(* The worth of the waves 1 .. n: wave w spawns 3 + w Large asteroids. *)
RECURSIVE WaveTotal(_)
WaveTotal(n) == IF n <= 0 THEN 0 ELSE Value(3) * (3 + n) + WaveTotal(n - 1)

(* C22: with Large, Medium, Small worth 110, 40, 10, at every frame         *)
(* boundary score + the worth of the asteroids = 110 * sum of (3 + w) over  *)
(* w in 1 .. wave; at the moment a wave begins the score is the worth of    *)
(* the waves before it; there are at most 4 * (3 + wave) asteroids.         *)
C22_ValueConservation ==
    /\ Value(3) = 110 /\ Value(2) = 40 /\ Value(1) = 10
    /\ score + ValueOf(asteroids, 1) = WaveTotal(wave)
    /\ (mid.kind \in {"init", "restart"} \/ (mid.kind = "play" /\ mid.hit.asteroids = <<>>))
           => score = WaveTotal(wave - 1)
    /\ Len(asteroids) <= 4 * (3 + wave)

(* C22 witness: the end of a frame of wave 2, with points scored in that   *)
(* wave and asteroids of two sizes left on screen.                          *)
C22_Witness ==
    /\ wave = 2
    /\ score > WaveTotal(1)
    /\ \E i, k \in 1 .. Len(asteroids) : asteroids[i].size = 3 /\ asteroids[k].size = 2
    /\ mid.kind = "play"
    /\ mid.hit.asteroids # <<>>

(* C23: at every frame boundary, in play and in game over, there is an     *)
(* asteroid; a frame that takes a life keeps the asteroid that hit the      *)
(* player and does not advance the wave, and a frame that advances the      *)
(* wave takes no life.                                                      *)
C23_AsteroidsNeverEmpty ==
    /\ asteroids # <<>>
    /\ mid.kind = "play" =>
           /\ mid.hit.lives < mid.before.lives =>
                  /\ wave = mid.before.wave
                  /\ asteroids = mid.hit.asteroids
                  /\ \E i \in Touching(mid.shot) :
                         i \in 1 .. Len(asteroids) /\ asteroids[i] = mid.shot.asteroids[i]
           /\ wave # mid.before.wave =>
                  /\ lives = mid.before.lives
                  /\ game_over = mid.before.game_over

(* C23 witness: a frame in which a bullet destroyed an asteroid and another *)
(* asteroid took a life; the wave is the same and asteroids remain.         *)
C23_Witness ==
    /\ mid.kind = "play"
    /\ mid.hit.lives < mid.before.lives
    /\ Destroyed(mid.before) # {}
    /\ score > mid.before.score
    /\ asteroids # <<>>

(* C24: wherever the player is on the screen, some candidate inside the    *)
(* screen is farther than 200 from it, and under fair sampling the loop     *)
(* ends with all 3 + wave asteroids of the wave placed.                     *)
C24_SpawnTerminates ==
    /\ [](\E c \in SpawnCandidates :
              /\ InRange(c)
              /\ DistSq(c, player.pos) > 200 * 200)
    /\ <>(Len(asteroids) = 3 + wave)

(* C24 witness: a wave of 5 placed around a player at the centre of the     *)
(* screen after a candidate at distance exactly 200 was drawn again.        *)
C24_Witness ==
    /\ mid.kind = "spawn"
    /\ mid.again
    /\ player.pos = Centre
    /\ wave = 2
    /\ Len(asteroids) = 3 + wave

====
